---- MODULE Spec2Model ----
(***************************************************************************)
(* Control-channel engine of the FTP proxy (pftp/proxy.go): the response   *)
(* pump started by start(), the suspend gate used by sendToOrigin() and    *)
(* suspend(), and the origin switch done by switchOrigin() and             *)
(* sendTLSCommand().  One session is modelled: the goroutine that runs     *)
(* start() (the writer loop), the reader goroutine it spawns, the session  *)
(* goroutine that issues commands and switches the origin, and the origin  *)
(* servers behind the sockets.                                             *)
(***************************************************************************)
EXTENDS Integers, Sequences, FiniteSets, TLC

(* ------------------------------ bounds --------------------------------- *)

\* s.timeout, the configured number of seconds (polls) of sendToOrigin/suspend
Timeout == 1

\* number of operations the session goroutine performs on the proxy
MaxOps == 2

\* number of chunks the origin servers send in total
MaxChunks == 2

\* longest Previous TLS Commands list handed to switchOrigin
MaxTLS == 2

(* --------------------------- control lines ------------------------------ *)
\* A control line is a sequence of one-character strings.

CR == "\r"
LF == "\n"

AuthTLS == <<"A", "U", "T", "H", " ", "T", "L", "S", CR, LF>>
AuthSSLLower == <<"a", "u", "t", "h", " ", "s", "s", "l", CR, LF>>
Pbsz0 == <<"P", "B", "S", "Z", " ", "0", CR, LF>>
ProtP == <<"P", "R", "O", "T", " ", "P", CR, LF>>

Resp234 == <<"2", "3", "4", " ", "o", "k", CR, LF>>
Resp200 == <<"2", "0", "0", " ", "o", "k", CR, LF>>
Resp550 == <<"5", "5", "0", " ", "n", "o", CR, LF>>
RespEmpty == <<CR, LF>>

\* the answers a new origin may give to a replayed command
Responses == {Resp234, Resp200, Resp550, RespEmpty}

\* strings.ToUpper on one character
UpperChar(c) ==
    CASE c = "a" -> "A" [] c = "u" -> "U" [] c = "t" -> "T" [] c = "h" -> "H"
      [] c = "s" -> "S" [] c = "l" -> "L" [] c = "p" -> "P" [] c = "b" -> "B"
      [] c = "z" -> "Z" [] c = "r" -> "R" [] c = "o" -> "O" [] c = "e" -> "E"
      [] c = "n" -> "N" [] c = "k" -> "K"
      [] OTHER -> c

\* strings.ToUpper
ToUpper(s) == [i \in 1..Len(s) |-> UpperChar(s[i])]

\* strings.Trim(s, cutset): drops the leading and trailing characters of cutset
RECURSIVE TrimLeft(_, _)
TrimLeft(s, cutset) ==
    IF s # <<>> /\ Head(s) \in cutset THEN TrimLeft(Tail(s), cutset) ELSE s

RECURSIVE TrimRight(_, _)
TrimRight(s, cutset) ==
    IF s # <<>> /\ s[Len(s)] \in cutset
    THEN TrimRight(SubSeq(s, 1, Len(s) - 1), cutset)
    ELSE s

Trim(s, cutset) == TrimRight(TrimLeft(s, cutset), cutset)

\* strings.SplitN(s, " ", 2)[0]: the text before the first space, or all of s
RECURSIVE SplitFirst(_)
SplitFirst(s) ==
    IF s = <<>> \/ Head(s) = " " THEN <<>> ELSE <<Head(s)>> \o SplitFirst(Tail(s))

\* strings.SplitN(strings.Trim(line, "\r\n"), " ", 2)[0], the first token of
\* a line as lines 191 and 192 compute it
FirstToken(line) == SplitFirst(Trim(line, {CR, LF}))

\* line 191: the replayed command is an AUTH
IsAuth(cmd) == ToUpper(FirstToken(cmd)) = <<"A", "U", "T", "H">>

\* line 192: code of the response; line 193 indexes code[0]
Code(str) == FirstToken(str)

\* the lists switchOrigin is called with: AUTH, PBSZ, PROT in the order the
\* client negotiated them, cut at MaxTLS
RECURSIVE Prefixes(_)
Prefixes(s) ==
    IF s = <<>> THEN {<<>>} ELSE {s} \cup Prefixes(SubSeq(s, 1, Len(s) - 1))

TLSLists ==
    { l \in Prefixes(<<AuthTLS, Pbsz0, ProtP>>)
            \cup Prefixes(<<AuthSSLLower, Pbsz0, ProtP>>) : Len(l) <= MaxTLS }

(* ------------------------------- state ---------------------------------- *)

VARIABLES
    \* proxyServer fields
    origin,         \* s.origin: the connection, [sock |-> id, tls |-> layers]
    originReader,   \* s.originReader: the connection the reader wraps
    originWriter,   \* s.originWriter
    passThrough,    \* s.passThrough
    sem,            \* s.sem
    stop,           \* s.stop
    mutex,          \* s.mutex: "free" or the name of the holder
    proxyProtocol,  \* s.proxyProtocol
    \* the network
    closed,         \* sockets closed by a Close() of the proxy
    sockOut,        \* per socket, the chunks the origin sent and nobody read yet
    sockEOF,        \* sockets whose origin closed the connection
    owed,           \* per socket, commands written to it and not yet answered
    nextChunk,      \* next chunk the origins send
    nextSock,       \* next socket net.Dial returns
    deadline,       \* sockets with a read deadline set (SetReadDeadline)
    \* the client writer (bufio.Writer over the client socket)
    clientBuf,      \* written, not yet flushed
    clientOut,      \* flushed to the client
    clientLost,     \* a Write or Flush to the client failed
    \* start(): the writer loop and its locals
    wpc,            \* position of the goroutine running start()
    rpc,            \* position of the reader goroutine
    read,           \* chan []byte (buffered)
    readClosed,     \* close(read) done
    errClosed,      \* close(errchan) done
    lastError,      \* lastError
    from,           \* the from argument: the connection read
    buff,           \* buff[:n] of the last Read
    reof,           \* the last Read returned io.EOF
    rerr,           \* the error the last Read returned, for errchan
    rtmp,           \* the reader's load of s.sem inside sem--
    wb,             \* b received from read
    result,         \* what start() returned
    crashed,        \* an unrecovered panic ended the process
    \* the session goroutine
    spc,            \* position of the session goroutine
    ops,            \* operations started so far
    cnt,            \* cnt of sendToOrigin / suspend
    stmp,           \* the session's load of s.sem inside sem++
    soResult,       \* what the last sendToOrigin returned
    swL,            \* previousTLSCommands
    swNew,          \* c / newConn: the connection being prepared
    swOld,          \* old
    swDefer,        \* defer s.unsuspend() registered
    swErr,          \* the value switchOrigin is about to return
    swWire,         \* what happened so far on the connection being prepared
    \* history
    readFree,       \* per chunk, pass-through true and gate free when it was read
    obs,            \* per chunk, what the reader saw when it tested line 305
    entry,          \* origin, reader, writer at the entry of switchOrigin
    entryClosed,    \* whether that origin was closed already at the entry
    stopBy,         \* who sent the stop the writer loop received in this run
    readErr,        \* the error other than EOF the reader's Read returned in this run
    swDid           \* what this call of switchOrigin did: sent its stop, dialed

net == <<closed, sockOut, sockEOF, owed, nextChunk, nextSock, deadline>>
client == <<clientBuf, clientOut, clientLost>>
fields == <<origin, originReader, originWriter, passThrough, sem, stop, mutex,
            proxyProtocol>>
pump == <<wpc, rpc, read, readClosed, errClosed, lastError, from, buff, reof,
          rerr, rtmp, wb, result, crashed>>
session == <<spc, ops, cnt, stmp, soResult, swL, swNew, swOld, swDefer,
             swErr, swWire>>
history == <<readFree, obs, entry, entryClosed, stopBy, readErr, swDid>>

vars == <<fields, net, client, pump, session, history>>

Socks == 1..(MaxOps + 1)
Chunks == 1..MaxChunks
NoConn == [sock |-> 0, tls |-> 0]

\* newProxyServer, lines 51-74: the first origin is dialed, pass-through is on
Init ==
    /\ origin = [sock |-> 1, tls |-> 0]
    /\ originReader = [sock |-> 1, tls |-> 0]
    /\ originWriter = [sock |-> 1, tls |-> 0]
    /\ passThrough = TRUE
    /\ sem = 0
    /\ stop = FALSE
    /\ mutex = "free"
    /\ proxyProtocol \in BOOLEAN
    /\ closed = {}
    /\ sockOut = [s \in Socks |-> <<>>]
    /\ sockEOF = {}
    /\ owed = [s \in Socks |-> 0]
    /\ nextChunk = 1
    /\ nextSock = 2
    /\ deadline = {}
    /\ clientBuf = <<>>
    /\ clientOut = <<>>
    /\ clientLost = FALSE
    /\ wpc = "idle"
    /\ rpc = "idle"
    /\ read = <<>>
    /\ readClosed = FALSE
    /\ errClosed = FALSE
    /\ lastError = "nil"
    /\ from = NoConn
    /\ buff = 0
    /\ reof = FALSE
    /\ rerr = "nil"
    /\ rtmp = 0
    /\ wb = 0
    /\ result = "none"
    /\ crashed = FALSE
    /\ spc = "s_idle"
    /\ ops = 0
    /\ cnt = 0
    /\ stmp = 0
    /\ soResult = "none"
    /\ swL = <<>>
    /\ swNew = NoConn
    /\ swOld = NoConn
    /\ swDefer = FALSE
    /\ swErr = "nil"
    /\ swWire = <<>>
    /\ readFree = [c \in Chunks |-> FALSE]
    /\ obs = [c \in Chunks |-> "none"]
    /\ entry = <<NoConn, NoConn, NoConn>>
    /\ entryClosed = FALSE
    /\ stopBy = "none"
    /\ readErr = "nil"
    /\ swDid = {}

(* ------------------------- start(), lines 267-356 ----------------------- *)

Running == wpc \notin {"idle", "returned"}

\* lines 267-270: the stop flag is set, start returns nil at once
StartStopped ==
    /\ ~crashed /\ wpc \in {"idle", "returned"}
    /\ stop
    /\ result' = "nil"
    /\ stopBy' = "none"
    /\ readErr' = "nil"
    /\ wpc' = "returned"
    /\ UNCHANGED <<fields, net, client, rpc, read, readClosed, errClosed,
                   lastError, from, buff, reof, rerr, rtmp, wb, crashed,
                   session, readFree, obs, entry, entryClosed, swDid>>

\* lines 103, 267-279: responseProxy calls start(s.originReader, s.clientWriter);
\* the channels are made and the reader goroutine is spawned
StartPump ==
    /\ ~crashed /\ wpc \in {"idle", "returned"}
    /\ ~stop
    /\ from' = originReader
    /\ read' = <<>>
    /\ readClosed' = FALSE
    /\ errClosed' = FALSE
    /\ lastError' = "nil"
    /\ result' = "none"
    /\ stopBy' = "none"
    /\ readErr' = "nil"
    /\ rpc' = "r_Read"
    /\ wpc' = "w_select"
    /\ UNCHANGED <<fields, net, client, buff, reof, rerr, rtmp, wb, crashed,
                   session, readFree, obs, entry, entryClosed, swDid>>

\* lines 281 and 300-303, err == nil: the reader gets the next chunk of the
\* origin and sets the read deadline of s.origin
ReaderReadData ==
    /\ ~crashed /\ rpc = "r_Read"
    /\ from.sock \notin closed
    /\ sockOut[from.sock] # <<>>
    /\ buff' = Head(sockOut[from.sock])
    /\ sockOut' = [sockOut EXCEPT ![from.sock] = Tail(@)]
    /\ deadline' = IF Timeout > 0 THEN deadline \cup {origin.sock} ELSE deadline
    /\ readFree' = [readFree EXCEPT
                       ![Head(sockOut[from.sock])] = passThrough /\ sem < 1]
    /\ reof' = FALSE
    /\ rpc' = "r_test"
    /\ UNCHANGED <<fields, closed, sockEOF, owed, nextChunk, nextSock, client,
                   wpc, read, readClosed, errClosed, lastError, from, rerr,
                   rtmp, wb, result, crashed, session, obs, entry, entryClosed,
                   stopBy, readErr, swDid>>

\* line 281, err == io.EOF: the origin closed the connection; n = 0
ReaderReadEOF ==
    /\ ~crashed /\ rpc = "r_Read"
    /\ from.sock \notin closed
    /\ sockOut[from.sock] = <<>>
    /\ from.sock \in sockEOF
    /\ buff' = 0
    /\ reof' = TRUE
    /\ rpc' = "r_test"
    /\ UNCHANGED <<fields, net, client, wpc, read, readClosed, errClosed,
                   lastError, from, rerr, rtmp, wb, result, crashed, session,
                   history>>

\* line 281, any other error: the socket was closed by the proxy, or the read
\* deadline set at lines 79 and 302 passed with nothing to read
ReaderReadErr ==
    /\ ~crashed /\ rpc = "r_Read"
    /\ \/ /\ from.sock \in closed
          /\ rerr' = "closed"
          /\ readErr' = "closed"
       \/ /\ from.sock \notin closed
          /\ from.sock \in deadline
          /\ sockOut[from.sock] = <<>>
          /\ from.sock \notin sockEOF
          /\ rerr' = "timeout"
          /\ readErr' = "timeout"
    /\ rpc' = "r_errchan"
    /\ UNCHANGED <<fields, net, client, wpc, read, readClosed, errClosed,
                   lastError, from, buff, reof, rtmp, wb, result, crashed,
                   session, readFree, obs, entry, entryClosed, stopBy, swDid>>

\* the test with semFree() taken for semLocked()
ShouldForwardWhenFree(pt, sm) == pt \/ sm < 1

\* lines 288 and 305: s.passThrough || s.semLocked()
ShouldForward(pt, sm) == pt \/ sm > 0

\* what the reader saw of pass-through and gate when it tested them
Seen(pt, sm) ==
    IF pt THEN (IF sm > 0 THEN "pt_held" ELSE "pt_free")
          ELSE (IF sm > 0 THEN "held" ELSE "neither")

\* lines 288 and 305: forward the slice or skip it.  The two fields are read in
\* one step: sem only falls by the reader's own sem--, so reading passThrough
\* first and sem later yields no other outcome.
ReaderTest ==
    /\ ~crashed /\ rpc = "r_test"
    /\ rpc' = IF ShouldForward(passThrough, sem) THEN "r_put" ELSE "r_recvSend"
    /\ obs' = IF reof THEN obs ELSE [obs EXCEPT ![buff] = Seen(passThrough, sem)]
    /\ UNCHANGED <<fields, net, client, wpc, read, readClosed, errClosed,
                   lastError, from, buff, reof, rerr, rtmp, wb, result,
                   crashed, session, readFree, entry, entryClosed, stopBy,
                   readErr, swDid>>

\* the put of lines 289 and 306 followed by the next Read, without the wait
\* on send
ReaderPutUnacked ==
    /\ ~crashed /\ rpc = "r_put"
    /\ crashed' = readClosed
    /\ read' = IF readClosed THEN read ELSE Append(read, buff)
    /\ rpc' = IF readClosed THEN rpc ELSE "r_Read"
    /\ UNCHANGED <<fields, net, client, wpc, readClosed, errClosed, lastError,
                   from, buff, reof, rerr, rtmp, wb, result, session, history>>

\* lines 289 and 306: read <- buff[:n]; a send on the closed channel panics
ReaderPut ==
    /\ ~crashed /\ rpc = "r_put"
    /\ crashed' = readClosed
    /\ read' = IF readClosed THEN read ELSE Append(read, buff)
    /\ rpc' = IF readClosed THEN rpc ELSE "r_test2"
    /\ UNCHANGED <<fields, net, client, wpc, readClosed, errClosed, lastError,
                   from, buff, reof, rerr, rtmp, wb, result, session, history>>

\* s.semUnlock() without the test of lines 290 and 307
ReaderUnlockUntested ==
    /\ ~crashed /\ rpc = "r_test2"
    /\ rpc' = "r_semLoad"
    /\ UNCHANGED <<fields, net, client, wpc, read, readClosed, errClosed,
                   lastError, from, buff, reof, rerr, rtmp, wb, result,
                   crashed, session, history>>

\* lines 290 and 307: if s.semLocked()
ReaderTest2 ==
    /\ ~crashed /\ rpc = "r_test2"
    /\ rpc' = IF sem > 0 THEN "r_semLoad" ELSE "r_recvSend"
    /\ UNCHANGED <<fields, net, client, wpc, read, readClosed, errClosed,
                   lastError, from, buff, reof, rerr, rtmp, wb, result,
                   crashed, session, history>>

\* lines 110-112, semUnlock: s.sem-- is a load ...
ReaderSemLoad ==
    /\ ~crashed /\ rpc = "r_semLoad"
    /\ rtmp' = sem
    /\ rpc' = "r_semStore"
    /\ UNCHANGED <<fields, net, client, wpc, read, readClosed, errClosed,
                   lastError, from, buff, reof, rerr, wb, result, crashed,
                   session, history>>

\* ... and a store
semUnlock ==
    /\ ~crashed /\ rpc = "r_semStore"
    /\ sem' = rtmp - 1
    /\ rtmp' = 0
    /\ rpc' = "r_recvSend"
    /\ UNCHANGED <<origin, originReader, originWriter, passThrough, stop,
                   mutex, proxyProtocol, net, client, wpc, read, readClosed,
                   errClosed, lastError, from, buff, reof, rerr, wb, result,
                   crashed, session, history>>

\* lines 294/312 with line 340: send <- struct{}{} meets <-send
SendAck ==
    /\ ~crashed /\ rpc = "r_recvSend" /\ wpc = "w_send"
    /\ rpc' = IF reof THEN "r_setLast" ELSE "r_Read"
    /\ wpc' = "w_select"
    /\ UNCHANGED <<fields, net, client, read, readClosed, errClosed, lastError,
                   from, buff, reof, rerr, rtmp, wb, result, crashed, session,
                   history>>

\* line 296: lastError = err (io.EOF)
ReaderSetLast ==
    /\ ~crashed /\ rpc = "r_setLast"
    /\ lastError' = "EOF"
    /\ rpc' = "r_stopSend"
    /\ UNCHANGED <<fields, net, client, wpc, read, readClosed, errClosed, from,
                   buff, reof, rerr, rtmp, wb, result, crashed, session,
                   history>>

\* line 297 with lines 344-345: the reader's s.stopChan <- struct{}{} is
\* received by the select of the writer loop, which closes errchan.  No
\* goroutine can act on errchan between the receive and the close (a sender
\* stays blocked), so they are one step.
StopFromReader ==
    /\ ~crashed /\ rpc = "r_stopSend" /\ wpc = "w_select"
    /\ rpc' = "r_done"
    /\ errClosed' = TRUE
    /\ stopBy' = "reader"
    /\ wpc' = "w_originClose"
    /\ UNCHANGED <<fields, net, client, read, readClosed, lastError, from,
                   buff, reof, rerr, rtmp, wb, result, crashed, session,
                   readFree, obs, entry, entryClosed, readErr, swDid>>

\* the receive of lines 341-343 without lastError = err
ErrRecvUnrecorded ==
    /\ ~crashed /\ rpc = "r_errchan" /\ wpc = "w_select"
    /\ ~errClosed
    /\ rerr' = "nil"
    /\ rpc' = "r_done"
    /\ wpc' = "w_closeRead"
    /\ UNCHANGED <<fields, net, client, read, readClosed, errClosed, lastError,
                   from, buff, reof, rtmp, wb, result, crashed, session,
                   history>>

\* line 285 with lines 341-343: safeSetChanel(errchan, err) meets <-errchan
ErrRecv ==
    /\ ~crashed /\ rpc = "r_errchan" /\ wpc = "w_select"
    /\ ~errClosed
    /\ lastError' = rerr
    /\ rerr' = "nil"
    /\ rpc' = "r_done"
    /\ wpc' = "w_closeRead"
    /\ UNCHANGED <<fields, net, client, read, readClosed, errClosed, from,
                   buff, reof, rtmp, wb, result, crashed, session, history>>

\* line 285: safeSetChanel on the closed errchan: the panic of the send is
\* recovered and the reader goes on to line 315
safeSetChanel ==
    /\ ~crashed /\ rpc = "r_errchan"
    /\ errClosed
    /\ rerr' = "nil"
    /\ rpc' = "r_done"
    /\ UNCHANGED <<fields, net, client, wpc, read, readClosed, errClosed,
                   lastError, from, buff, reof, rtmp, wb, result, crashed,
                   session, history>>

\* line 315 with lines 353-355: done <- struct{}{} meets <-done; start returns
\* lastError and its locals are gone
DoneAck ==
    /\ ~crashed /\ rpc = "r_done" /\ wpc = "w_waitDone"
    /\ rpc' = "idle"
    /\ wpc' = "returned"
    /\ result' = lastError
    /\ lastError' = "nil"
    /\ read' = <<>>
    /\ readClosed' = FALSE
    /\ errClosed' = FALSE
    /\ reof' = FALSE
    /\ buff' = 0
    /\ from' = NoConn
    /\ UNCHANGED <<fields, net, client, rerr, rtmp, wb, crashed, session,
                   history>>

\* line 321: b, ok := <-read
WriterRecvRead ==
    /\ ~crashed /\ wpc = "w_select"
    /\ read # <<>>
    /\ wb' = Head(read)
    /\ read' = Tail(read)
    /\ wpc' = "w_lock"
    /\ UNCHANGED <<fields, net, client, rpc, readClosed, errClosed, lastError,
                   from, buff, reof, rerr, rtmp, result, crashed, session,
                   history>>

\* line 326: s.mutex.Lock()
WriterLock ==
    /\ ~crashed /\ wpc = "w_lock"
    /\ mutex = "free"
    /\ mutex' = "pump"
    /\ wpc' = "w_Write"
    /\ UNCHANGED <<origin, originReader, originWriter, passThrough, sem, stop,
                   proxyProtocol, net, client, rpc, read, readClosed,
                   errClosed, lastError, from, buff, reof, rerr, rtmp, wb,
                   result, crashed, session, history>>

\* line 327: to.Write(b); the empty slice of an EOF (0) adds nothing
WriterWrite ==
    /\ ~crashed /\ wpc = "w_Write"
    /\ ~clientLost
    /\ clientBuf' = IF wb = 0 THEN clientBuf ELSE Append(clientBuf, wb)
    /\ wb' = 0
    /\ wpc' = "w_Flush"
    /\ UNCHANGED <<fields, net, clientOut, clientLost, rpc, read, readClosed,
                   errClosed, lastError, from, buff, reof, rerr, rtmp, result,
                   crashed, session, history>>

\* lines 327-329: to.Write fails; lastError = err.  A bufio.Writer fails a
\* Write of no bytes only with the error of an earlier Write or Flush.
WriterWriteFail ==
    /\ ~crashed /\ wpc = "w_Write"
    /\ wb # 0 \/ clientLost
    /\ clientLost' = TRUE
    /\ lastError' = "werr"
    /\ wb' = 0
    /\ wpc' = "w_unlockErr"
    /\ UNCHANGED <<fields, net, clientBuf, clientOut, rpc, read, readClosed,
                   errClosed, from, buff, reof, rerr, rtmp, result, crashed,
                   session, history>>

\* a Flush that leaves the written bytes in the buffer of the writer
WriterFlushKeepsBuffer ==
    /\ ~crashed /\ wpc = "w_Flush"
    /\ ~clientLost
    /\ clientOut' = clientOut \o clientBuf
    /\ wpc' = "w_unlock"
    /\ UNCHANGED <<fields, net, clientBuf, clientLost, rpc, read, readClosed,
                   errClosed, lastError, from, buff, reof, rerr, rtmp, wb,
                   result, crashed, session, history>>

\* line 334: to.Flush()
WriterFlush ==
    /\ ~crashed /\ wpc = "w_Flush"
    /\ ~clientLost
    /\ clientOut' = clientOut \o clientBuf
    /\ clientBuf' = <<>>
    /\ wpc' = "w_unlock"
    /\ UNCHANGED <<fields, net, clientLost, rpc, read, readClosed, errClosed,
                   lastError, from, buff, reof, rerr, rtmp, wb, result,
                   crashed, session, history>>

\* lines 334-335: to.Flush fails; lastError = err.  With nothing buffered it
\* fails only with the error of an earlier Write or Flush.
WriterFlushFail ==
    /\ ~crashed /\ wpc = "w_Flush"
    /\ clientBuf # <<>> \/ clientLost
    /\ clientLost' = TRUE
    /\ lastError' = "werr"
    /\ wpc' = "w_unlockErr"
    /\ UNCHANGED <<fields, net, clientBuf, clientOut, rpc, read, readClosed,
                   errClosed, from, buff, reof, rerr, rtmp, wb, result,
                   crashed, session, history>>

\* line 339: s.mutex.Unlock() after the flush
WriterUnlock ==
    /\ ~crashed /\ wpc = "w_unlock"
    /\ mutex' = "free"
    /\ wpc' = "w_send"
    /\ UNCHANGED <<origin, originReader, originWriter, passThrough, sem, stop,
                   proxyProtocol, net, client, rpc, read, readClosed,
                   errClosed, lastError, from, buff, reof, rerr, rtmp, wb,
                   result, crashed, session, history>>

\* the error paths without their s.mutex.Unlock()
WriterBreakLocked ==
    /\ ~crashed /\ wpc = "w_unlockErr"
    /\ wpc' = "w_closeRead"
    /\ UNCHANGED <<fields, net, client, rpc, read, readClosed, errClosed,
                   lastError, from, buff, reof, rerr, rtmp, wb, result,
                   crashed, session, history>>

\* lines 330-331 and 336-337: s.mutex.Unlock(); break loop
WriterUnlockErr ==
    /\ ~crashed /\ wpc = "w_unlockErr"
    /\ mutex' = "free"
    /\ wpc' = "w_closeRead"
    /\ UNCHANGED <<origin, originReader, originWriter, passThrough, sem, stop,
                   proxyProtocol, net, client, rpc, read, readClosed,
                   errClosed, lastError, from, buff, reof, rerr, rtmp, wb,
                   result, crashed, session, history>>

\* line 347: s.origin.Close(): whatever s.origin is at this moment
WriterOriginClose ==
    /\ ~crashed /\ wpc = "w_originClose"
    /\ closed' = closed \cup {origin.sock}
    /\ wpc' = "w_setStop"
    /\ UNCHANGED <<fields, sockOut, sockEOF, owed, nextChunk, nextSock,
                   deadline, client, rpc, read, readClosed, errClosed,
                   lastError, from, buff, reof, rerr, rtmp, wb, result,
                   crashed, session, history>>

\* line 348: s.stop = true; break loop
WriterSetStop ==
    /\ ~crashed /\ wpc = "w_setStop"
    /\ stop' = TRUE
    /\ wpc' = "w_closeRead"
    /\ UNCHANGED <<origin, originReader, originWriter, passThrough, sem, mutex,
                   proxyProtocol, net, client, rpc, read, readClosed,
                   errClosed, lastError, from, buff, reof, rerr, rtmp, wb,
                   result, crashed, session, history>>

\* line 352: close(read)
WriterCloseRead ==
    /\ ~crashed /\ wpc = "w_closeRead"
    /\ readClosed' = TRUE
    /\ wpc' = "w_waitDone"
    /\ UNCHANGED <<fields, net, client, rpc, read, errClosed, lastError, from,
                   buff, reof, rerr, rtmp, wb, result, crashed, session,
                   history>>

(* --------------------------- the origin servers ------------------------- *)
\* What an origin sends reaches the proxy when a pump reads the socket, so the
\* origins act on the socket of the running pump.

Live == IF Running /\ from.sock \notin closed \cup sockEOF THEN {from.sock} ELSE {}

\* the origin answers a command it received
OriginRespond ==
    /\ ~crashed /\ nextChunk <= MaxChunks
    /\ \E s \in Live :
        /\ owed[s] > 0
        /\ owed' = [owed EXCEPT ![s] = @ - 1]
        /\ sockOut' = [sockOut EXCEPT ![s] = Append(@, nextChunk)]
    /\ nextChunk' = nextChunk + 1
    /\ UNCHANGED <<fields, closed, sockEOF, nextSock, deadline, client, pump,
                   session, history>>

\* the origin sends a further chunk: the next line of a multi-line reply, or
\* a reply that arrives in two segments
OriginMore ==
    /\ ~crashed /\ nextChunk <= MaxChunks
    /\ \E s \in Live : sockOut' = [sockOut EXCEPT ![s] = Append(@, nextChunk)]
    /\ nextChunk' = nextChunk + 1
    /\ UNCHANGED <<fields, closed, sockEOF, owed, nextSock, deadline, client,
                   pump, session, history>>

\* the origin closes the control connection
OriginClose ==
    /\ ~crashed
    /\ \E s \in Live : sockEOF' = sockEOF \cup {s}
    /\ UNCHANGED <<fields, closed, sockOut, owed, nextChunk, nextSock,
                   deadline, client, pump, session, history>>

(* ----------------------- sendToOrigin, lines 76-100 --------------------- *)

\* lines 76-80: the session goroutine hands a command line to sendToOrigin;
\* cnt := 0 and the read deadline of s.origin is set
SendCall ==
    /\ ~crashed /\ spc = "s_idle" /\ ops < MaxOps
    /\ ops' = ops + 1
    /\ cnt' = 0
    /\ deadline' = IF Timeout > 0 THEN deadline \cup {origin.sock} ELSE deadline
    /\ soResult' = "none"
    /\ spc' = "so_loop"
    /\ UNCHANGED <<fields, closed, sockOut, sockEOF, owed, nextChunk, nextSock,
                   client, pump, stmp, swL, swNew, swOld, swDefer, swErr,
                   swWire, history>>

\* lines 83-85: cnt > s.timeout, the semaphore was not obtained
SendTimeout ==
    /\ ~crashed /\ spc = "so_loop"
    /\ cnt > Timeout
    /\ soResult' = "timeout"
    /\ cnt' = 0
    /\ spc' = "so_return"
    /\ UNCHANGED <<fields, net, client, pump, ops, stmp, swL, swNew, swOld,
                   swDefer, swErr, swWire, history>>

\* lines 89, 96-97: the gate is held; sleep one second, cnt++
SendSleep ==
    /\ ~crashed /\ spc = "so_loop"
    /\ cnt <= Timeout
    /\ ~(sem < 1)
    /\ cnt' = cnt + 1
    /\ UNCHANGED <<fields, net, client, pump, spc, ops, stmp, soResult, swL,
                   swNew, swOld, swDefer, swErr, swWire, history>>

\* lines 89-92: semFree(), then s.origin.Write(line); the write fails on a
\* socket the proxy closed
SendWrite ==
    /\ ~crashed /\ spc = "so_loop"
    /\ cnt <= Timeout
    /\ sem < 1
    /\ cnt' = 0
    /\ owed' = IF origin.sock \in closed THEN owed
               ELSE [owed EXCEPT ![origin.sock] = @ + 1]
    /\ soResult' = IF origin.sock \in closed THEN "werr" ELSE soResult
    /\ spc' = IF origin.sock \in closed THEN "so_return" ELSE "so_semLoad"
    /\ UNCHANGED <<fields, closed, sockOut, sockEOF, nextChunk, nextSock,
                   deadline, client, pump, ops, stmp, swL, swNew, swOld,
                   swDefer, swErr, swWire, history>>

\* lines 93, 106-108, semLock: s.sem++ is a load ...
SendSemLoad ==
    /\ ~crashed /\ spc = "so_semLoad"
    /\ stmp' = sem
    /\ spc' = "so_semStore"
    /\ UNCHANGED <<fields, net, client, pump, ops, cnt, soResult, swL, swNew,
                   swOld, swDefer, swErr, swWire, history>>

\* ... and a store; lines 94 and 99: break, return nil
semLock ==
    /\ ~crashed /\ spc = "so_semStore"
    /\ sem' = stmp + 1
    /\ stmp' = 0
    /\ soResult' = "nil"
    /\ spc' = "so_return"
    /\ UNCHANGED <<origin, originReader, originWriter, passThrough, stop,
                   mutex, proxyProtocol, net, client, pump, ops, cnt, swL,
                   swNew, swOld, swDefer, swErr, swWire, history>>

\* lines 84, 91 and 99: sendToOrigin has returned soResult to its caller
SendReturn ==
    /\ ~crashed /\ spc = "so_return"
    /\ soResult' = "none"
    /\ spc' = "s_idle"
    /\ UNCHANGED <<fields, net, client, pump, ops, cnt, stmp, swL, swNew,
                   swOld, swDefer, swErr, swWire, history>>

(* ------------------ switchOrigin / suspend, lines 122-265 --------------- *)

\* lines 217-226: switchOrigin is called
SwitchCall ==
    /\ ~crashed /\ spc = "s_idle" /\ ops < MaxOps
    /\ ops' = ops + 1
    /\ entry' = <<origin, originReader, originWriter>>
    /\ entryClosed' = (origin.sock \in closed)
    /\ spc' = IF passThrough THEN "su_loop" ELSE "sw_stop"
    /\ UNCHANGED <<fields, net, client, pump, cnt, stmp, soResult, swL, swNew,
                   swOld, swDefer, swErr, swWire, readFree, obs, stopBy,
                   readErr, swDid>>

\* lines 126-128 and 221-224: suspend fails, switchOrigin returns its error
\* before the defer is registered
SuspendTimeout ==
    /\ ~crashed /\ spc = "su_loop"
    /\ cnt > Timeout
    /\ swErr' = "err_suspend"
    /\ cnt' = 0
    /\ spc' = "sw_return"
    /\ UNCHANGED <<fields, net, client, pump, ops, stmp, soResult, swL, swNew,
                   swOld, swDefer, swWire, history>>

\* lines 130, 134-135: the gate is held; sleep one second, cnt++
SuspendSleep ==
    /\ ~crashed /\ spc = "su_loop"
    /\ cnt <= Timeout
    /\ ~(sem < 1)
    /\ cnt' = cnt + 1
    /\ UNCHANGED <<fields, net, client, pump, spc, ops, stmp, soResult, swL,
                   swNew, swOld, swDefer, swErr, swWire, history>>

\* suspend without the semFree() of line 130
suspendUnpolled ==
    /\ ~crashed /\ spc = "su_loop"
    /\ cnt <= Timeout
    /\ passThrough' = FALSE
    /\ swDefer' = TRUE
    /\ cnt' = 0
    /\ spc' = "sw_stop"
    /\ UNCHANGED <<origin, originReader, originWriter, sem, stop, mutex,
                   proxyProtocol, net, client, pump, ops, stmp, soResult, swL,
                   swNew, swOld, swErr, swWire, history>>

\* lines 130-132 and 225: the gate is free: passThrough = false; the
\* unsuspend is deferred
suspend ==
    /\ ~crashed /\ spc = "su_loop"
    /\ cnt <= Timeout
    /\ sem < 1
    /\ passThrough' = FALSE
    /\ swDefer' = TRUE
    /\ cnt' = 0
    /\ spc' = "sw_stop"
    /\ UNCHANGED <<origin, originReader, originWriter, sem, stop, mutex,
                   proxyProtocol, net, client, pump, ops, stmp, soResult, swL,
                   swNew, swOld, swErr, swWire, history>>

\* line 228 with lines 344-345: s.stopChan <- struct{}{} is received by the
\* select of the writer loop, which closes errchan
StopFromSwitch ==
    /\ ~crashed /\ spc = "sw_stop" /\ wpc = "w_select"
    /\ spc' = "sw_dial"
    /\ errClosed' = TRUE
    /\ stopBy' = "switch"
    /\ swDid' = swDid \cup {"stop"}
    /\ wpc' = "w_originClose"
    /\ UNCHANGED <<fields, net, client, rpc, read, readClosed, lastError, from,
                   buff, reof, rerr, rtmp, wb, result, crashed, ops, cnt, stmp,
                   soResult, swL, swNew, swOld, swDefer, swErr, swWire,
                   readFree, obs, entry, entryClosed, readErr>>

\* lines 230, 235-238: net.Dial succeeds; old := s.origin.  The dial touches
\* nothing another goroutine sees, so it is one step with the read of s.origin.
Dial ==
    /\ ~crashed /\ spc = "sw_dial"
    /\ nextSock \in Socks
    /\ swNew' = [sock |-> nextSock, tls |-> 0]
    /\ nextSock' = nextSock + 1
    /\ swOld' = origin
    /\ swDid' = swDid \cup {"dial"}
    /\ spc' = "sw_prepare"
    /\ UNCHANGED <<fields, closed, sockOut, sockEOF, owed, nextChunk, deadline,
                   client, pump, ops, cnt, stmp, soResult, swL, swDefer, swErr,
                   swWire, readFree, obs, entry, entryClosed, stopBy, readErr>>

\* lines 230-231: net.Dial fails
DialFail ==
    /\ ~crashed /\ spc = "sw_dial"
    /\ swErr' = "err_dial"
    /\ swDid' = swDid \cup {"dial"}
    /\ spc' = "sw_clearStop"
    /\ UNCHANGED <<fields, net, client, pump, ops, cnt, stmp, soResult, swL,
                   swNew, swOld, swDefer, swWire, readFree, obs, entry,
                   entryClosed, stopBy, readErr>>

\* what a Write or a ReadString on the new connection may yield besides a
\* response line: an error of the write, an error of the read
WriteFails == <<"!w">>
ReadFails == <<"!r">>
Outcomes == Responses \cup {WriteFails, ReadFails}

\* the same without the test of line 193 for a 5xx answer
AfterResponseUnchecked(cmd, str) ==
    IF ~IsAuth(cmd) THEN "plain"
    ELSE IF Code(str) = <<>> THEN "panic"
    ELSE "wrap"

\* the effect of lines 191-207 after response str to cmd: "panic" when code
\* is empty (code[0]), "refused" on a 5xx to AUTH, "wrap" when the connection
\* is wrapped in TLS, "plain" for any other command
AfterResponse(cmd, str) ==
    IF ~IsAuth(cmd) THEN "plain"
    ELSE IF Code(str) = <<>> THEN "panic"
    ELSE IF Code(str)[1] = "5" THEN "refused"
    ELSE "wrap"

\* lines 178-215, the range loop of sendTLSCommand over the commands left,
\* given what each write/read on newConn yields: the error returned, the
\* connection (with its TLS layers) and what went over it
RECURSIVE sendTLSCommand(_, _, _, _)
sendTLSCommand(cmds, outs, newConn, log) ==
    IF cmds = <<>> THEN [err |-> "nil", conn |-> newConn, wire |-> log]
    ELSE IF Head(outs) = WriteFails
    THEN [err |-> "err_tls", conn |-> newConn, wire |-> log]
    ELSE LET sent == Append(log, <<"w", Head(cmds)>>)
             got == Append(sent, <<"r", Head(outs)>>)
             act == AfterResponse(Head(cmds), Head(outs))
         IN  IF Head(outs) = ReadFails
             THEN [err |-> "err_tls", conn |-> newConn, wire |-> sent]
             ELSE IF act = "panic"
             THEN [err |-> "panic", conn |-> newConn, wire |-> got]
             ELSE IF act = "refused"
             THEN [err |-> "err_refused", conn |-> newConn, wire |-> got]
             ELSE IF act = "wrap"
             THEN sendTLSCommand(Tail(cmds), Tail(outs),
                                 [newConn EXCEPT !.tls = @ + 1],
                                 Append(got, <<"tls">>))
             ELSE sendTLSCommand(Tail(cmds), Tail(outs), newConn, got)

\* what is on the new connection before the replay: the PROXY header when
\* s.proxyProtocol (lines 241-245), then the welcome message read (line 248)
Opening(pp) == IF pp THEN <<<<"hdr">>, <<"greet">>>> ELSE <<<<"greet">>>>

\* lines 242-244: writing the PROXY header fails; return err
ProxyHeaderFail ==
    /\ ~crashed /\ spc = "sw_prepare"
    /\ proxyProtocol
    /\ swErr' = "err_hdr"
    /\ spc' = "sw_return"
    /\ UNCHANGED <<fields, net, client, pump, ops, cnt, stmp, soResult, swL,
                   swNew, swOld, swDefer, swWire, history>>

\* lines 248-250: reading the welcome message fails; return err
GreetingFail ==
    /\ ~crashed /\ spc = "sw_prepare"
    /\ swErr' = "err_greet"
    /\ spc' = "sw_return"
    /\ UNCHANGED <<fields, net, client, pump, ops, cnt, stmp, soResult, swL,
                   swNew, swOld, swDefer, swWire, history>>

\* every list switchOrigin may be called with, with everything the new origin
\* may answer to it, and what sendTLSCommand makes of it on a fresh connection
Runs ==
    UNION {{[l |-> l, outs |-> outs] : outs \in [1..Len(l) -> Outcomes]} :
           l \in TLSLists}

Replays ==
    {[l |-> p.l, r |-> sendTLSCommand(p.l, p.outs, NoConn, <<>>)] : p \in Runs}

\* lines 241-255: header and welcome message pass and the replay of list l
\* fails with err: c.Close().  All of it happens on the connection only
\* switchOrigin holds, so it is one step.  l and wire are the list and what
\* went over the connection, where they are recorded.
ReplayFailOf(err, l, wire) ==
    /\ err # "nil"
    /\ swL' = l
    /\ swWire' = wire
    /\ crashed' = (err = "panic")
    /\ swErr' = err
    /\ closed' = IF err = "panic" THEN closed ELSE closed \cup {swNew.sock}
    /\ spc' = IF err = "panic" THEN spc ELSE "sw_clearStop"
    /\ UNCHANGED <<fields, sockOut, sockEOF, owed, nextChunk, nextSock,
                   deadline, client, wpc, rpc, read, readClosed, errClosed,
                   lastError, from, buff, reof, rerr, rtmp, wb, result, ops,
                   cnt, stmp, soResult, swNew, swOld, swDefer, history>>

\* lines 241-254 and 210: header, welcome message and the replay of list l
\* pass with tls layers of TLS on the connection, and sendTLSCommand stores
\* it: s.origin = newConn
ReplayOf(tls, l, wire) ==
    /\ swL' = l
    /\ swWire' = wire
    /\ swNew' = [swNew EXCEPT !.tls = tls]
    /\ origin' = [swNew EXCEPT !.tls = tls]
    /\ spc' = "tls_reader"
    /\ UNCHANGED <<originReader, originWriter, passThrough, sem, stop, mutex,
                   proxyProtocol, net, client, pump, ops, cnt, stmp, soResult,
                   swOld, swDefer, swErr, history>>

\* switchOrigin's preparation of the new connection, for every list it may be
\* called with and everything the new origin may answer
ReplayFail ==
    /\ ~crashed /\ spc = "sw_prepare"
    /\ \E err \in {p.r.err : p \in Replays} : ReplayFailOf(err, <<>>, <<>>)

Replay ==
    /\ ~crashed /\ spc = "sw_prepare"
    /\ \E p \in {q.r.conn.tls : q \in {q \in Replays : q.r.err = "nil"}} :
        ReplayOf(p, <<>>, <<>>)

\* the same with the list and the traffic of the new connection recorded
ReplayFailLogged ==
    /\ ~crashed /\ spc = "sw_prepare"
    /\ \E p \in Replays :
        ReplayFailOf(p.r.err, p.l, Opening(proxyProtocol) \o p.r.wire)

ReplayLogged ==
    /\ ~crashed /\ spc = "sw_prepare"
    /\ \E p \in Replays :
        /\ p.r.err = "nil"
        /\ ReplayOf(p.r.conn.tls, p.l, Opening(proxyProtocol) \o p.r.wire)

\* lines 211-214: s.originReader = reader; s.originWriter = writer; return
\* nil.  No goroutine reads s.originWriter, so its store is no step of its own.
TLSInstallReader ==
    /\ ~crashed /\ spc = "tls_reader"
    /\ originReader' = swNew
    /\ originWriter' = swNew
    /\ spc' = "sw_closeOld"
    /\ UNCHANGED <<origin, passThrough, sem, stop, mutex, proxyProtocol, net,
                   client, pump, ops, cnt, stmp, soResult, swL, swNew, swOld,
                   swDefer, swErr, swWire, history>>

\* line 261: old.Close()
SwitchCloseOld ==
    /\ ~crashed /\ spc = "sw_closeOld"
    /\ closed' = closed \cup {swOld.sock}
    /\ spc' = "sw_clearStop"
    /\ UNCHANGED <<fields, sockOut, sockEOF, owed, nextChunk, nextSock,
                   deadline, client, pump, ops, cnt, stmp, soResult, swL,
                   swNew, swOld, swDefer, swErr, swWire, history>>

\* lines 232, 257 and 263: s.stop = false
SwitchClearStop ==
    /\ ~crashed /\ spc = "sw_clearStop"
    /\ stop' = FALSE
    /\ spc' = "sw_return"
    /\ UNCHANGED <<origin, originReader, originWriter, passThrough, sem, mutex,
                   proxyProtocol, net, client, pump, ops, cnt, stmp, soResult,
                   swL, swNew, swOld, swDefer, swErr, swWire, history>>

\* the return of switchOrigin without the deferred unsuspend
ReturnSuspended ==
    /\ ~crashed /\ spc = "sw_return"
    /\ swErr' = "nil"
    /\ entry' = <<NoConn, NoConn, NoConn>>
    /\ entryClosed' = FALSE
    /\ swDid' = {}
    /\ swDefer' = FALSE
    /\ swL' = <<>>
    /\ swNew' = NoConn
    /\ swOld' = NoConn
    /\ swWire' = <<>>
    /\ spc' = "s_idle"
    /\ UNCHANGED <<fields, net, client, pump, ops, cnt, stmp, soResult,
                   readFree, obs, stopBy, readErr>>

\* lines 140-143 and 225: switchOrigin returns swErr to its caller, the
\* deferred unsuspend runs where it was registered; the locals are gone
unsuspend ==
    /\ ~crashed /\ spc = "sw_return"
    /\ passThrough' = IF swDefer THEN TRUE ELSE passThrough
    /\ swErr' = "nil"
    /\ entry' = <<NoConn, NoConn, NoConn>>
    /\ entryClosed' = FALSE
    /\ swDid' = {}
    /\ swDefer' = FALSE
    /\ swL' = <<>>
    /\ swNew' = NoConn
    /\ swOld' = NoConn
    /\ swWire' = <<>>
    /\ spc' = "s_idle"
    /\ UNCHANGED <<origin, originReader, originWriter, sem, stop, mutex,
                   proxyProtocol, net, client, pump, ops, cnt, stmp, soResult,
                   readFree, obs, stopBy, readErr>>

(* ---------- the interceptor's error reply and Close, lines 145-147 ------- *)

\* the interceptor takes the session mutex to send its 530 reply
DenyLock ==
    /\ ~crashed /\ spc = "s_idle" /\ ops < MaxOps
    /\ mutex = "free"
    /\ mutex' = "session"
    /\ ops' = ops + 1
    /\ spc' = "dn_write"
    /\ UNCHANGED <<origin, originReader, originWriter, passThrough, sem, stop,
                   proxyProtocol, net, client, pump, cnt, stmp, soResult, swL,
                   swNew, swOld, swDefer, swErr, swWire, history>>

\* the reply is written and the mutex released
DenyUnlock ==
    /\ ~crashed /\ spc = "dn_write"
    /\ mutex' = "free"
    /\ spc' = "dn_close"
    /\ UNCHANGED <<origin, originReader, originWriter, passThrough, sem, stop,
                   proxyProtocol, net, client, pump, ops, cnt, stmp, soResult,
                   swL, swNew, swOld, swDefer, swErr, swWire, history>>

\* lines 145-147: Close() closes s.origin; the session is over
Close ==
    /\ ~crashed /\ spc = "dn_close"
    /\ closed' = closed \cup {origin.sock}
    /\ spc' = "s_end"
    /\ UNCHANGED <<fields, sockOut, sockEOF, owed, nextChunk, nextSock,
                   deadline, client, pump, ops, cnt, stmp, soResult, swL,
                   swNew, swOld, swDefer, swErr, swWire, history>>

(* ------------------------------- properties ----------------------------- *)

Range(seq) == {seq[i] : i \in DOMAIN seq}

Count(seq, c) == Cardinality({i \in DOMAIN seq : seq[i] = c})

\* what went to the client writer, flushed or not
ToClient == clientOut \o clientBuf

\* chunk c is on its way: not yet read, held by the reader before its put, on
\* the read channel, with the writer, or at the client
InFlight(c) ==
    \/ \E s \in Socks : c \in Range(sockOut[s])
    \/ buff = c /\ rpc \in {"r_test", "r_put"}
    \/ c \in Range(read)
    \/ wb = c
    \/ c \in Range(ToClient)

\* switchOrigin is about to return the error swErr
SwitchFailed == spc = "sw_return" /\ swErr # "nil"

\* switchOrigin has replayed its list and is past line 210, on its way to
\* return nil
SwitchPassed ==
    \/ spc \in {"tls_reader", "sw_closeOld"}
    \/ spc \in {"sw_clearStop", "sw_return"} /\ swErr = "nil" /\ swNew # NoConn

\* wire is the replay of list l and nothing else: each element written once,
\* in order, one response read after it, and the connection wrapped in TLS
\* exactly after an AUTH element whose response does not start with "5"
RECURSIVE Replayed(_, _)
Replayed(l, wire) ==
    IF l = <<>> THEN wire = <<>>
    ELSE /\ Len(wire) >= 2
         /\ wire[1] = <<"w", Head(l)>>
         /\ wire[2][1] = "r"
         /\ IF IsAuth(Head(l)) /\ (wire[2][2] = <<>> \/ wire[2][2][1] # "5")
            THEN /\ Len(wire) >= 3
                 /\ wire[3] = <<"tls">>
                 /\ Replayed(Tail(l), SubSeq(wire, 4, Len(wire)))
            ELSE Replayed(Tail(l), SubSeq(wire, 3, Len(wire)))

\* C1: whenever switchOrigin returns an error, the origin, its reader and its
\* writer are those installed before the call, and that origin socket has
\* not been closed since the call began, the pump that received the injected
\* stop included.
C1_OldOriginIntact ==
    SwitchFailed =>
        /\ origin = entry[1]
        /\ originReader = entry[2]
        /\ originWriter = entry[3]
        /\ (entry[1].sock \in closed => entryClosed)

\* C2: whenever switchOrigin is on its way to return nil for the list swL,
\* what went over the new connection after its greeting is the replay of swL
\* (each element once, in order, a response read after each, TLS wrapped after
\* every AUTH not answered 5xx), the connection installed is the one so
\* wrapped, and before the replay is complete the session's origin, reader and
\* writer are not the connection being prepared.
C2_ReplayExact ==
    /\ SwitchPassed =>
        /\ SubSeq(swWire, 1, Len(Opening(proxyProtocol))) = Opening(proxyProtocol)
        /\ Replayed(swL, SubSeq(swWire, Len(Opening(proxyProtocol)) + 1,
                                Len(swWire)))
        /\ origin = swNew
        /\ origin.tls = Count(swWire, <<"tls">>)
    /\ (swNew # NoConn /\ ~SwitchPassed) =>
        /\ origin.sock # swNew.sock
        /\ originReader.sock # swNew.sock
        /\ originWriter.sock # swNew.sock

\* C2 witness: a switch returns nil after replaying AUTH and a second command
\* with the connection wrapped in TLS once
C2_Witness ==
    /\ spc = "sw_return" /\ swErr = "nil"
    /\ Len(swL) = 2
    /\ origin.tls = 1
    /\ originReader = origin

\* C3 as stated: while the gate is held (sem >= 1) no chunk read from the
\* origin is written to the client writer.
C3_NoWriteWhileHeld ==
    ~(sem >= 1 /\ wpc = "w_Flush" /\ clientBuf # <<>>)

\* C3 amended: the gate does not bar the way to the client.  A chunk is put on
\* the read channel, and so written to the client writer, only if pass-through
\* was true or the gate was held (sem >= 1) when the reader tested it; a chunk
\* tested with pass-through false and the gate free is withheld.
C3_ForwardedOnlyIfPassOrHeld ==
    /\ \A c \in Chunks :
        (c \in Range(read) \/ wb = c \/ c \in Range(ToClient)) =>
            obs[c] \in {"pt_free", "pt_held", "held"}
    /\ (rpc = "r_put" /\ ~reof) => obs[buff] \in {"pt_free", "pt_held", "held"}
    /\ (rpc = "r_recvSend" /\ ~reof /\ buff \in Chunks /\ obs[buff] = "neither")
        => buff \notin Range(read)

\* C3 witness: a chunk tested while the gate was held has been flushed to the
\* client and the gate is held still
C3_Witness ==
    /\ sem >= 1
    /\ wpc = "w_unlock"
    /\ \E c \in Range(clientOut) : obs[c] = "pt_held"

\* C4 as stated: no chunk the reader read is discarded as long as no
\* connection is lost: it stays on its way until it is at the client.
C4_NoChunkDiscarded ==
    \A c \in Chunks : (obs[c] # "none" /\ ~clientLost) => InFlight(c)

\* C4 amended: no chunk is written to the client writer twice; there is no
\* injector that consumes a chunk, so a chunk the reader tested is on its way
\* or at the client unless it was tested with pass-through false and the gate
\* free (then it is discarded) or the client connection is lost; and once the
\* reader is acknowledged and back at its Read, the chunk it read last has been
\* flushed to the client exactly once.
C4_OnceOrDiscarded ==
    /\ \A c \in Chunks : Count(ToClient, c) <= 1
    /\ \A c \in Chunks :
        (obs[c] # "none" /\ ~InFlight(c)) => (obs[c] = "neither" \/ clientLost)
    /\ (rpc = "r_Read" /\ buff \in Chunks) => Count(clientOut, buff) = 1

\* C4 witness: a chunk was discarded with pass-through false and the gate
\* free while the client connection is up
C4_Witness ==
    /\ ~clientLost
    /\ \E c \in Chunks : obs[c] = "neither" /\ ~InFlight(c)

\* C5: every chunk read while pass-through is true and the gate is free is
\* written and flushed to the client, also when a suspend or an injected stop
\* comes while it is with the reader or queued: once the writer loop has left
\* for good with the client connection up, each such chunk is at the client.
C5_FreeChunksDelivered ==
    (wpc = "w_waitDone" /\ ~clientLost /\ ~crashed) =>
        \A c \in Chunks : (obs[c] # "none" /\ readFree[c]) => c \in Range(clientOut)

\* C6: the pump writer is between its Lock and its Unlock exactly while it
\* holds the session mutex, so its Write and Flush run under the mutex, every
\* path out of the write releases it, and start neither returns nor blocks on
\* a channel holding it; the interceptor holds it exactly while it writes its
\* reply, so at most one goroutine writes to the client writer.
C6_WriteUnderMutex ==
    /\ mutex \in {"free", "pump", "session"}
    /\ mutex = "pump" <=> wpc \in {"w_Write", "w_Flush", "w_unlock", "w_unlockErr"}
    /\ mutex = "session" <=> spc = "dn_write"
    /\ ~(wpc \in {"w_Write", "w_Flush"} /\ spc = "dn_write")

\* C6 witness: the pump writer waits at its Lock with a chunk while the
\* interceptor holds the mutex for its reply
C6_Witness ==
    /\ mutex = "session"
    /\ wpc = "w_lock"
    /\ wb \in Chunks

\* C7: no pump started on one origin runs while the session's origin field
\* refers to another socket: start has returned before switchOrigin installs
\* the new connection.
C7_PumpGoneBeforeInstall ==
    Running => from.sock = origin.sock

\* C8: in pass-through, once the response to a command is at the client and
\* pump and session are at rest, the gate is free again, so the next
\* sendToOrigin finds the semaphore.
C8_GateFreeAfterResponse ==
    (/\ passThrough /\ spc = "s_idle"
     /\ rpc = "r_Read" /\ wpc = "w_select" /\ read = <<>>
     /\ from = origin /\ origin.sock \notin closed \cup sockEOF
     /\ owed[origin.sock] = 0 /\ sockOut[origin.sock] = <<>>
     /\ ~clientLost)
        => sem = 0

\* C9: after the reader got EOF the pump does not end with the reader waiting
\* on send for an acknowledgement while the writer loop has left and waits on
\* done: start returns.
C9_ReturnsAfterEOF ==
    ~(reof /\ rpc = "r_recvSend" /\ wpc = "w_waitDone")

\* C10: after a Write or Flush of a chunk to the client failed, the pump does
\* not end with the writer loop waiting on done while the reader waits on
\* send: the reader signals done and start returns the error.
C10_ReturnsClientError ==
    ~(lastError = "werr" /\ ~reof /\ wpc = "w_waitDone" /\ rpc = "r_recvSend")


\* C11: after switchOrigin has injected its stop into a running pump, the
\* pump does not end with the reader still waiting on send for the
\* acknowledgement of a chunk it queued or dropped while the writer loop has
\* left its loop and waits on done: start returns.
C11_StoppedPumpReturns ==
    ~(stopBy = "switch" /\ ~reof /\ rpc = "r_recvSend" /\ wpc = "w_waitDone")

\* C12: a reader whose Read failed with an error other than EOF offers that
\* error on the error channel while the writer loop is in its select; if no
\* stop was received in this run of start, lastError is that error when the
\* reader is done and start returns exactly that error; if switchOrigin's stop
\* was received, the error is not recorded and start returns nil.
C12_ReadErrorReturned ==
    /\ (rpc = "r_errchan" /\ ~errClosed) =>
        (wpc = "w_select" /\ rerr = readErr /\ rerr # "nil")
    /\ (rpc = "r_done" /\ readErr # "nil" /\ stopBy = "none") =>
        lastError = readErr
    /\ (wpc = "returned" /\ readErr # "nil" /\ stopBy = "none") =>
        result = readErr
    /\ (rpc = "r_done" /\ readErr # "nil" /\ stopBy # "none") =>
        (stopBy = "switch" /\ lastError = "nil")
    /\ (wpc = "returned" /\ readErr # "nil" /\ stopBy # "none") =>
        (stopBy = "switch" /\ result = "nil")

\* C12 witness: start has returned the timeout of the reader's Read, no stop
\* having been received
C12_Witness ==
    /\ wpc = "returned"
    /\ stopBy = "none"
    /\ readErr = "timeout"
    /\ result = "timeout"

\* C13: the gate counter sem is 0 or 1 in every state.  sendToOrigin loads 0
\* for its sem++ and the reader loads 1 for its sem--, whatever the other
\* goroutine does between the test, the load and the store.
C13_GateZeroOrOne ==
    /\ sem \in {0, 1}
    /\ spc = "so_semStore" => (stmp = 0 /\ sem = 0)
    /\ rpc = "r_semStore" => (rtmp = 1 /\ sem = 1)

\* C13 witness: the reader is between the load and the store of its sem--
\* while a second sendToOrigin polls the gate
C13_Witness ==
    /\ rpc = "r_semStore"
    /\ spc = "so_loop"
    /\ sem = 1

\* a step of the session goroutine inside suspend()
SuspendStep == spc = "su_loop" /\ (spc' # spc \/ cnt' # cnt)

\* C14: suspend starts its count at 0 and polls with pass-through still
\* true; it returns nil, with pass-through set to false, only from a poll that
\* finds the gate free; it counts a poll only when the gate is held; it returns
\* its error only after the polls at counts 0..timeout, and then pass-through
\* is true as before; and no step of suspend changes the gate counter.
C14_SuspendPolls ==
    /\ [](/\ spc = "su_loop" => (passThrough /\ ~swDefer /\ cnt \in 0..(Timeout + 1))
          /\ (spc = "sw_return" /\ swErr = "err_suspend") => passThrough)
    /\ [][/\ (spc # "su_loop" /\ spc' = "su_loop") => cnt' = 0
          /\ (passThrough /\ ~passThrough') => (spc = "su_loop" /\ sem < 1)
          /\ (spc = "su_loop" /\ spc' = "sw_stop") =>
                (sem < 1 /\ cnt <= Timeout /\ ~passThrough')
          /\ (spc = "su_loop" /\ cnt' # cnt /\ spc' = spc) =>
                (sem >= 1 /\ cnt' = cnt + 1 /\ passThrough')
          /\ (spc = "su_loop" /\ spc' = "sw_return") =>
                (cnt = Timeout + 1 /\ swErr' = "err_suspend" /\ passThrough')
          /\ SuspendStep => sem' = sem]_vars

\* C14 witness: suspend has given up after its last poll with the gate held
\* and pass-through still true
C14_Witness ==
    /\ spc = "sw_return"
    /\ swErr = "err_suspend"
    /\ passThrough
    /\ sem = 1

\* the positions of the session goroutine inside switchOrigin
InSwitch ==
    {"su_loop", "sw_stop", "sw_dial", "sw_prepare", "tls_reader",
     "sw_closeOld", "sw_clearStop", "sw_return"}

\* C15: pass-through is true whenever the session goroutine is outside
\* switchOrigin, so it is true at every entry of switchOrigin and true again
\* after every return, whatever the return path; every return but the one of
\* a failed suspend has the unsuspend deferred; and a switchOrigin that
\* returns the error of suspend has neither sent its stop nor dialed.
C15_PassThroughRestored ==
    /\ [](/\ spc \notin InSwitch => passThrough
          /\ (spc = "sw_return" /\ swErr # "err_suspend") => swDefer
          /\ (spc = "sw_return" /\ swErr = "err_suspend") =>
                (passThrough /\ swDid = {} /\ swNew = NoConn))
    /\ [][/\ (spc \notin InSwitch /\ spc' \in InSwitch) => passThrough
          /\ (spc = "sw_return" /\ spc' # "sw_return") =>
                (passThrough' /\ spc' = "s_idle")]_vars

\* C15 witness: a switchOrigin that sent its stop and dialed has returned
\* without installing the new connection, and pass-through is true
C15_Witness ==
    /\ spc = "s_idle"
    /\ passThrough
    /\ stopBy = "switch"
    /\ nextSock > 2
    /\ origin.sock = 1

\* the writer loop holds a slice it received from read and has not
\* acknowledged on send yet
Unacked == wpc \in {"w_lock", "w_Write", "w_Flush", "w_unlock", "w_send"}

\* C16: within a run of start the read channel holds at most one slice, and
\* not while the writer loop holds one; as long as a slice is queued or
\* unacknowledged the reader is past its put and before the end of its wait
\* on send, so it does not Read; the slice queued or about to be written is
\* what the buffer holds; and when the reader is at its Read again, the chunk
\* it read before has been flushed to the client.
C16_OneSliceInFlight ==
    /\ Len(read) <= 1
    /\ ~(read # <<>> /\ Unacked)
    /\ (read # <<>> \/ Unacked) =>
        rpc \in {"r_test2", "r_semLoad", "r_semStore", "r_recvSend"}
    /\ read # <<>> => Head(read) = buff
    /\ wpc \in {"w_lock", "w_Write"} => wb = buff
    /\ (rpc = "r_Read" /\ buff \in Chunks) => buff \in Range(clientOut)

\* C16 witness: a slice is queued on read and the reader waits on send while
\* the next chunk of the origin is ready to be read
C16_Witness ==
    /\ read # <<>>
    /\ rpc = "r_recvSend"
    /\ wpc = "w_select"
    /\ sockOut[from.sock] # <<>>

\* C17: once switchOrigin has returned and the pump that received its stop
\* has returned from start, the stop flag is false.
C17_StopFlagCleared ==
    (stopBy = "switch" /\ wpc = "returned" /\ spc \notin InSwitch) => ~stop

\* C18: switchOrigin is never left at its send on the stop channel with
\* nobody to receive it: no pump running and the stop flag set, so that every
\* later start returns at once.
C18_StopSendReceived ==
    ~(spc = "sw_stop" /\ wpc \in {"idle", "returned"} /\ stop)

\* C19: when switchOrigin returns nil, the origin installed is the
\* connection it dialed and prepared, and that socket is open.
C19_NewOriginOpen ==
    (spc = "sw_return" /\ swErr = "nil") =>
        (origin = swNew /\ origin.sock \notin closed)

\* C20: when switchOrigin returns an error after its dial succeeded, the
\* connection it dialed is closed.
C20_FailedSwitchClosesNew ==
    (SwitchFailed /\ swNew # NoConn) => swNew.sock \in closed
(* --------------------------- specifications ----------------------------- *)

PumpNext ==
    \/ StartStopped \/ StartPump
    \/ ReaderReadData \/ ReaderReadEOF \/ ReaderReadErr
    \/ ReaderTest \/ ReaderPut \/ ReaderTest2 \/ ReaderSemLoad \/ semUnlock
    \/ SendAck \/ ReaderSetLast \/ StopFromReader \/ ErrRecv \/ safeSetChanel
    \/ DoneAck
    \/ WriterRecvRead \/ WriterLock \/ WriterWrite \/ WriterWriteFail
    \/ WriterFlush \/ WriterFlushFail \/ WriterUnlock \/ WriterUnlockErr
    \/ WriterOriginClose \/ WriterSetStop \/ WriterCloseRead

OriginNext == OriginRespond \/ OriginMore \/ OriginClose

SendNext ==
    \/ SendCall \/ SendTimeout \/ SendSleep \/ SendWrite \/ SendSemLoad
    \/ semLock \/ SendReturn

\* switchOrigin up to the dial, and its way out
SwitchEnds ==
    \/ SwitchCall \/ SuspendTimeout \/ SuspendSleep \/ suspend \/ StopFromSwitch
    \/ DialFail \/ SwitchClearStop \/ unsuspend

\* switchOrigin once the new origin is dialed
SwitchDialed ==
    \/ Dial \/ ProxyHeaderFail \/ GreetingFail \/ ReplayFail \/ Replay
    \/ TLSInstallReader \/ SwitchCloseOld

DenyNext == DenyLock \/ DenyUnlock \/ Close

\* the session: pump, origins and the session goroutine's operations
Next ==
    PumpNext \/ OriginNext \/ SendNext \/ SwitchEnds \/ SwitchDialed \/ DenyNext

Spec == Init /\ [][Next]_vars

\* the sessions that stay on their first origin: no dial of a switch succeeds
NextOneOrigin == PumpNext \/ OriginNext \/ SendNext \/ SwitchEnds \/ DenyNext

SpecOneOrigin == Init /\ [][NextOneOrigin]_vars

\* the origin switches of a session whose origins stay silent, with the list
\* and the traffic of the connection being prepared recorded
NextReplay ==
    \/ StartStopped \/ StartPump \/ ReaderReadErr \/ safeSetChanel \/ DoneAck
    \/ WriterOriginClose \/ WriterSetStop \/ WriterCloseRead
    \/ SwitchCall \/ suspend \/ StopFromSwitch \/ DialFail \/ SwitchClearStop
    \/ unsuspend
    \/ Dial \/ ProxyHeaderFail \/ GreetingFail \/ ReplayFailLogged
    \/ ReplayLogged \/ TLSInstallReader \/ SwitchCloseOld

SpecReplay == Init /\ [][NextReplay]_vars

\* the origin switches, with every way they fail, of a session that also
\* sends commands and whose origins stay silent
NextSwitch ==
    \/ StartStopped \/ StartPump \/ ReaderReadErr \/ ErrRecv \/ safeSetChanel
    \/ DoneAck \/ WriterOriginClose \/ WriterSetStop \/ WriterCloseRead
    \/ SendNext \/ SwitchEnds \/ SwitchDialed

SpecSwitch == Init /\ [][NextSwitch]_vars

====
